---- MODULE Spec2Model ----
(***************************************************************************)
(* Model of tests/generate_test_report.py: TestReportGenerator collects    *)
(* cargo test events, Criterion estimates, the tarpaulin summary and       *)
(* valgrind reports into per-category lists, and main() renders them as an *)
(* HTML, a JSON and a Markdown report.                                     *)
(*                                                                         *)
(* Number encodings: a pass rate is the exact fraction <<num, den>>; a     *)
(* value printed with one decimal (":.1f") is an integer count of tenths;  *)
(* Criterion point estimates are integers in units of 0.1 ns; exec_time is *)
(* an integer count of milliseconds.                                       *)
(***************************************************************************)
EXTENDS Integers, Sequences, FiniteSets, TLC

\* ------------------------------------------------------------------ bounds
\* Lines over all event files together, and event files, of one input.
MaxEventLines == 2
MaxEventFiles == 2
\* Entries of target/criterion.
MaxBenchDirs == 2
\* <error> elements over all valgrind reports together, and reports.
MaxMemErrors == 2
MaxMemFiles == 2
\* Length of the long uniform inputs (one file of n equal events, n benchmarks).
MaxLong == 12

\* Rows the Markdown report shows of a collection ([:10]).
MdRowLimit == 10

\* ----------------------------------------------------------------- helpers
SeqsUpTo(S, n) == UNION {[1..k -> S] : k \in 0..n}

\* dict.get(key, default)
Get(d, k, default) == IF k \in DOMAIN d THEN d[k] ELSE default

\* dict.get(key) of a key that is absent
None == "<None>"

\* The consecutive chunks of sequence s cut at the positions c[0] <= ... <= c[f].
Chunks(s, c, f) == [j \in 1..f |-> SubSeq(s, c[j-1] + 1, c[j])]

\* Every way to cut a sequence of length n into f consecutive chunks.
Cuts(n, f) ==
    {c \in [0..f -> 0..n] :
        /\ c[0] = 0
        /\ c[f] = n
        /\ \A j \in 1..f : c[j-1] <= c[j]}

\* ------------------------------------------------------------ text of names
\* The characters of each test name the inputs use (a TLA+ string is atomic).
NameChars ==
    [ unit_add_clip |-> <<"u", "n", "i", "t", "_", "a", "d", "d", "_", "c", "l", "i", "p">>,
      integration_export |-> <<"i", "n", "t", "e", "g", "r", "a", "t", "i", "o", "n", "_", "e", "x", "p", "o", "r", "t">>,
      Integration_UNIT |-> <<"I", "n", "t", "e", "g", "r", "a", "t", "i", "o", "n", "_", "U", "N", "I", "T">>,
      PERFORMANCE_seek |-> <<"P", "E", "R", "F", "O", "R", "M", "A", "N", "C", "E", "_", "s", "e", "e", "k">>,
      export_clip |-> <<"e", "x", "p", "o", "r", "t", "_", "c", "l", "i", "p">>,
      Unknown |-> <<"U", "n", "k", "n", "o", "w", "n">> ]

UpperToLower ==
    [ A |-> "a", B |-> "b", C |-> "c", D |-> "d", E |-> "e", F |-> "f", G |-> "g",
      H |-> "h", I |-> "i", J |-> "j", K |-> "k", L |-> "l", M |-> "m", N |-> "n",
      O |-> "o", P |-> "p", Q |-> "q", R |-> "r", S |-> "s", T |-> "t", U |-> "u",
      V |-> "v", W |-> "w", X |-> "x", Y |-> "y", Z |-> "z" ]

\* str.lower()
Lower(chars) ==
    [i \in 1..Len(chars) |->
        IF chars[i] \in DOMAIN UpperToLower THEN UpperToLower[chars[i]] ELSE chars[i]]

\* needle in hay
Contains(hay, needle) ==
    \E i \in 0..(Len(hay) - Len(needle)) : SubSeq(hay, i + 1, i + Len(needle)) = needle

KwUnit == <<"u", "n", "i", "t">>
KwIntegration == <<"i", "n", "t", "e", "g", "r", "a", "t", "i", "o", "n">>
KwPerformance == <<"p", "e", "r", "f", "o", "r", "m", "a", "n", "c", "e">>

\* ------------------------------------------------------------------ inputs
\* Lines of a *_tests_*.json file: text json.loads rejects, a JSON value that is
\* no object, and objects.
GarbageLine == [json |-> "invalid"]
ArrayLine == [json |-> "array"]
ObjLine(obj) == [json |-> "object", obj |-> obj]

SuiteLine == ObjLine([type |-> "suite", event |-> "started"])
UnitOkLine ==
    ObjLine([type |-> "test", name |-> "unit_add_clip", event |-> "ok", exec_time |-> 2])
IntegrationFailedLine ==
    ObjLine([type |-> "test", name |-> "integration_export", event |-> "failed"])
BothIgnoredLine ==
    ObjLine([type |-> "test", name |-> "Integration_UNIT", event |-> "ignored"])
PerformanceOkLine ==
    ObjLine([type |-> "test", name |-> "PERFORMANCE_seek", event |-> "ok"])
OtherStartedLine ==
    ObjLine([type |-> "test", name |-> "export_clip", event |-> "started"])

TestLines ==
    {UnitOkLine, IntegrationFailedLine, BothIgnoredLine, PerformanceOkLine, OtherStartedLine}
EventLines == {GarbageLine, ArrayLine, SuiteLine} \cup TestLines

\* An event file: one open() fails on, or its lines.
UnreadableFile == [readable |-> FALSE, lines |-> <<>>]
EventFile(lines) == [readable |-> TRUE, lines |-> lines]

\* The event-file lists of at most MaxEventFiles files holding at most
\* MaxEventLines lines together; a file without lines may be unreadable.
EventInputs ==
    UNION {
        UNION {
            UNION {
                { [j \in 1..f |->
                      IF j \in bad THEN UnreadableFile
                      ELSE EventFile(Chunks(ls, c, f)[j])] :
                  bad \in SUBSET {j \in 1..f : c[j-1] = c[j]} }
                : c \in Cuts(Len(ls), f) }
            : f \in (IF ls = <<>> THEN 0 ELSE 1)..MaxEventFiles }
        : ls \in SeqsUpTo(EventLines, MaxEventLines) }

\* Entries of target/criterion: a plain file, a directory without
\* base/estimates.json, one whose estimates.json json.load rejects, and
\* directories with estimates.
FullEstimates ==
    [ mean |-> [point_estimate |-> 1205],
      median |-> [point_estimate |-> 1190],
      std_dev |-> [point_estimate |-> 31] ]
MeanOnlyEstimates == [mean |-> [point_estimate |-> 1205]]

PlainFileEntry == [is_dir |-> FALSE, estimates |-> "missing"]
NoEstimatesDir == [is_dir |-> TRUE, estimates |-> "missing"]
MalformedEstimatesDir == [is_dir |-> TRUE, estimates |-> "malformed"]
EstimatesDir(data) == [is_dir |-> TRUE, estimates |-> "present", data |-> data]

BenchEntries ==
    { PlainFileEntry, NoEstimatesDir, MalformedEstimatesDir,
      EstimatesDir(FullEstimates), EstimatesDir(MeanOnlyEstimates) }

\* bench_dir.name of the i-th entry iterdir() yields
BenchName(i) ==
    <<"bench_01", "bench_02", "bench_03", "bench_04", "bench_05", "bench_06",
      "bench_07", "bench_08", "bench_09", "bench_10", "bench_11", "bench_12",
      "bench_13", "bench_14", "bench_15", "bench_16">>[i]

\* target/criterion: absent, or its entries in iteration order.
NoCriterion == [exists |-> FALSE, entries |-> <<>>]
Criterion(entries) == [exists |-> TRUE, entries |-> entries]
BenchInputs == {NoCriterion} \cup {Criterion(es) : es \in SeqsUpTo(BenchEntries, MaxBenchDirs)}

\* reports/coverage/tarpaulin-report.json: absent, rejected by json.load, or a
\* summary measuring a line coverage (in tenths of a percent).
NoTarpaulin == [exists |-> FALSE]
MalformedTarpaulin == [exists |-> TRUE, valid |-> FALSE]
Tarpaulin(cov) == [exists |-> TRUE, valid |-> TRUE, coverage |-> cov]
CoverageInputs == {NoTarpaulin, MalformedTarpaulin, Tarpaulin(0), Tarpaulin(875)}

\* <error> elements of a valgrind report, by the children they have.
FullError == [kind |-> "Leak_DefinitelyLost", what |-> "16 bytes definitely lost"]
NoKindError == [what |-> "Invalid read of size 4"]
NoWhatError == [kind |-> "UninitValue"]
BareError == <<>>
MemErrors == {FullError, NoKindError, NoWhatError, BareError}

\* A valgrind_*.xml file: one ET.parse rejects, or its <error> elements.
UnparsableReport == [parsable |-> FALSE, errors |-> <<>>]
MemReport(errors) == [parsable |-> TRUE, errors |-> errors]

MemInputs ==
    UNION {
        UNION {
            UNION {
                { [j \in 1..f |->
                      IF j \in bad THEN UnparsableReport
                      ELSE MemReport(Chunks(es, c, f)[j])] :
                  bad \in SUBSET {j \in 1..f : c[j-1] = c[j]} }
                : c \in Cuts(Len(es), f) }
            : f \in (IF es = <<>> THEN 0 ELSE 1)..MaxMemFiles }
        : es \in SeqsUpTo(MemErrors, MaxMemErrors) }

\* Small inputs of each family, combined with each other in Init.
FewEventInputs ==
    { <<>>, <<EventFile(<<UnitOkLine>>)>>, <<EventFile(<<ArrayLine>>)>>, <<UnreadableFile>> }
FewBenchInputs ==
    { NoCriterion,
      Criterion(<<EstimatesDir(FullEstimates)>>),
      Criterion(<<MalformedEstimatesDir>>),
      Criterion(<<EstimatesDir(MeanOnlyEstimates), MalformedEstimatesDir, EstimatesDir(FullEstimates)>>) }
FewMemInputs ==
    { <<>>, <<MemReport(<<FullError>>)>>, <<UnparsableReport>>,
      <<UnparsableReport, MemReport(<<NoKindError>>)>> }

\* Long inputs: one event file of n equal test events, or n benchmark directories.
LongEventInputs ==
    { <<EventFile([i \in 1..n |-> l])>> : n \in (MdRowLimit - 1)..MaxLong, l \in TestLines }
LongBenchInputs ==
    { Criterion([i \in 1..n |-> EstimatesDir(FullEstimates)]) : n \in (MdRowLimit - 1)..MaxLong }

\* ------------------------------------------------------------------- state
VARIABLES
    event_files,        \* reports/*_tests_*.json, in glob order
    criterion,          \* target/criterion
    tarpaulin,          \* reports/coverage/tarpaulin-report.json
    valgrind_files,     \* reports/memory/valgrind_*.xml, in glob order
    unit_tests,
    integration_tests,
    performance_tests,
    accessibility_tests,
    platform_tests,
    memory_tests,
    coverage_data,
    pc,                 \* the statement of main() to run next
    attempted,          \* the report formats main() has called the generator of
    html_report,        \* <<>> until written, then <<content>>
    json_report,
    md_report,
    exit_code,          \* "running", then 0 or 1
    document            \* <<>>, or <<the report's page as a browser shows it>>

inputs == <<event_files, criterion, tarpaulin, valgrind_files>>
collections ==
    <<unit_tests, integration_tests, performance_tests, accessibility_tests,
      platform_tests, memory_tests, coverage_data>>
reports == <<html_report, json_report, md_report>>
vars == <<inputs, collections, pc, attempted, reports, exit_code, document>>

\* self.coverage_data before _collect_coverage_results has assigned it
NoCoverageData == [unset |-> TRUE]

Init ==
    /\ \/ /\ event_files \in EventInputs
          /\ criterion = NoCriterion
          /\ tarpaulin = NoTarpaulin
          /\ valgrind_files = <<>>
       \/ /\ event_files = <<>>
          /\ criterion \in BenchInputs
          /\ tarpaulin = NoTarpaulin
          /\ valgrind_files = <<>>
       \/ /\ event_files = <<>>
          /\ criterion = NoCriterion
          /\ tarpaulin = NoTarpaulin
          /\ valgrind_files \in MemInputs
       \/ /\ event_files \in FewEventInputs
          /\ criterion \in FewBenchInputs
          /\ tarpaulin \in CoverageInputs
          /\ valgrind_files \in FewMemInputs
       \/ /\ event_files \in LongEventInputs
          /\ criterion = NoCriterion
          /\ tarpaulin = NoTarpaulin
          /\ valgrind_files = <<>>
       \/ /\ event_files = <<>>
          /\ criterion \in LongBenchInputs
          /\ tarpaulin = NoTarpaulin
          /\ valgrind_files = <<>>
    /\ unit_tests = <<>>
    /\ integration_tests = <<>>
    /\ performance_tests = <<>>
    /\ accessibility_tests = <<>>
    /\ platform_tests = <<>>
    /\ memory_tests = <<>>
    /\ coverage_data = NoCoverageData
    /\ pc = "collect_cargo"
    /\ attempted = {}
    /\ html_report = <<>>
    /\ json_report = <<>>
    /\ md_report = <<>>
    /\ exit_code = "running"
    /\ document = <<>>

\* ------------------------------------------------- _collect_cargo_test_results
\* Categorize with the integration test made before the unit test
CategorizeIntegrationFirst(name) ==
    LET lower == Lower(NameChars[name]) IN
    IF Contains(lower, KwIntegration) THEN "integration"
    ELSE IF Contains(lower, KwUnit) THEN "unit"
    ELSE IF Contains(lower, KwPerformance) THEN "performance"
    ELSE "unit"

\* "unit" / "integration" / "performance" in test_result["name"].lower()
Categorize(name) ==
    LET lower == Lower(NameChars[name]) IN
    IF Contains(lower, KwUnit) THEN "unit"
    ELSE IF Contains(lower, KwIntegration) THEN "integration"
    ELSE IF Contains(lower, KwPerformance) THEN "performance"
    ELSE "unit"

\* _process_test_event on the lists cols = [unit, integration, performance]
ProcessTestEvent(cols, event) ==
    LET test_result ==
            [ name |-> Get(event, "name", "Unknown"),
              event |-> Get(event, "event", ""),
              duration |-> Get(event, "exec_time", 0),
              stdout |-> Get(event, "stdout", "") ]
        category == Categorize(test_result.name)
    IN  [cols EXCEPT ![category] = Append(@, test_result)]

\* The loop over the lines of one open file, from line i on.  A line
\* json.loads rejects is skipped; on a JSON value without .get the
\* AttributeError leaves the loop and the handler of line 62 ends the file.
RECURSIVE ReadLines(_, _, _)
ReadLines(lines, i, cols) ==
    IF i > Len(lines) THEN cols
    ELSE IF lines[i].json = "invalid" THEN ReadLines(lines, i + 1, cols)
    ELSE IF lines[i].json # "object" THEN cols
    ELSE IF Get(lines[i].obj, "type", None) = "test"
         THEN ReadLines(lines, i + 1, ProcessTestEvent(cols, lines[i].obj))
         ELSE ReadLines(lines, i + 1, cols)

\* The loop over the globbed files, from file k on.
RECURSIVE ReadEventFiles(_, _, _)
ReadEventFiles(files, k, cols) ==
    IF k > Len(files) THEN cols
    ELSE IF ~files[k].readable THEN ReadEventFiles(files, k + 1, cols)
    ELSE ReadEventFiles(files, k + 1, ReadLines(files[k].lines, 1, cols))

CollectCargoTestResults ==
    /\ pc = "collect_cargo"
    /\ LET cols == ReadEventFiles(event_files, 1,
                       [ unit |-> unit_tests,
                         integration |-> integration_tests,
                         performance |-> performance_tests ])
       IN  /\ unit_tests' = cols.unit
           /\ integration_tests' = cols.integration
           /\ performance_tests' = cols.performance
    /\ pc' = "collect_benchmarks"
    /\ UNCHANGED <<inputs, document, accessibility_tests, platform_tests, memory_tests,
                   coverage_data, attempted, reports, exit_code>>

\* An uncaught exception ends main(): the interpreter exits with status 1.
Crash ==
    /\ pc' = "crashed"
    /\ exit_code' = 1

\* -------------------------------------------------- _collect_benchmark_results
BenchRecord(name, data) ==
    [ name |-> name,
      mean |-> Get(Get(data, "mean", <<>>), "point_estimate", 0),
      median |-> Get(Get(data, "median", <<>>), "point_estimate", 0),
      std_dev |-> Get(Get(data, "std_dev", <<>>), "point_estimate", 0) ]

\* The loop over criterion_dir.iterdir(), from entry i on; raised tells that
\* json.load rejected an estimates file, which nothing catches.
RECURSIVE ReadBenchDirs(_, _, _)
ReadBenchDirs(entries, i, perf) ==
    IF i > Len(entries) THEN [performance |-> perf, raised |-> FALSE]
    ELSE IF ~entries[i].is_dir \/ entries[i].estimates = "missing"
         THEN ReadBenchDirs(entries, i + 1, perf)
    ELSE IF entries[i].estimates = "malformed"
         THEN [performance |-> perf, raised |-> TRUE]
    ELSE ReadBenchDirs(entries, i + 1,
                       Append(perf, BenchRecord(BenchName(i), entries[i].data)))

CollectBenchmarkResults ==
    /\ pc = "collect_benchmarks"
    /\ LET got == IF criterion.exists
                  THEN ReadBenchDirs(criterion.entries, 1, performance_tests)
                  ELSE [performance |-> performance_tests, raised |-> FALSE]
       IN  /\ performance_tests' = got.performance
           /\ IF got.raised
              THEN Crash
              ELSE pc' = "collect_coverage" /\ UNCHANGED exit_code
    /\ UNCHANGED <<inputs, document, unit_tests, integration_tests, accessibility_tests,
                   platform_tests, memory_tests, coverage_data, attempted, reports>>

\* --------------------------------------------------- _collect_coverage_results
\* The dict of line 105; nothing is extracted from the file read at line 115.
\* DefaultCoverage with -1 standing for "not measured"
DefaultCoverageUnmeasured ==
    [line_coverage |-> -1, branch_coverage |-> -1, function_coverage |-> -1]
DefaultCoverage ==
    [line_coverage |-> 0, branch_coverage |-> 0, function_coverage |-> 0]

\* What the collector leaves in self.coverage_data for a summary file json.load
\* accepts, or for no file: the dict of line 105 in both cases
ReadCoverage(file) == DefaultCoverage

CollectCoverageResults ==
    /\ pc = "collect_coverage"
    /\ coverage_data' = ReadCoverage(tarpaulin)
    /\ IF tarpaulin.exists /\ ~tarpaulin.valid
       THEN Crash
       ELSE pc' = "collect_memory" /\ UNCHANGED exit_code
    /\ UNCHANGED <<inputs, document, unit_tests, integration_tests, performance_tests,
                   accessibility_tests, platform_tests, memory_tests, attempted, reports>>

\* ------------------------------------------------ _collect_memory_test_results
MemoryIssue(error) ==
    [ kind |-> Get(error, "kind", "Unknown"),
      what |-> Get(error, "what", "Unknown error") ]

\* The loop over the globbed valgrind files, from file k on; a file ET.parse
\* rejects is reported and skipped.
RECURSIVE ReadValgrindFiles(_, _, _)
ReadValgrindFiles(files, k, issues) ==
    IF k > Len(files) THEN issues
    ELSE IF ~files[k].parsable THEN ReadValgrindFiles(files, k + 1, issues)
    ELSE ReadValgrindFiles(files, k + 1,
             issues \o [i \in 1..Len(files[k].errors) |-> MemoryIssue(files[k].errors[i])])

CollectMemoryTestResults ==
    /\ pc = "collect_memory"
    /\ memory_tests' = ReadValgrindFiles(valgrind_files, 1, memory_tests)
    /\ pc' = "generate_html"
    /\ UNCHANGED <<inputs, document, unit_tests, integration_tests, performance_tests,
                   accessibility_tests, platform_tests, coverage_data, attempted,
                   reports, exit_code>>

\* ------------------------------------------------------------ summary numbers
\* sum(1 for t in tests if t.get("event") == status)
CountEvent(tests, status) ==
    Cardinality({i \in 1..Len(tests) : Get(tests[i], "event", None) = status})

\* (passed / total * 100) if total > 0 else 0, as the fraction <<num, den>>
PassRate(passed, total) ==
    IF total > 0 THEN <<passed * 100, total>> ELSE <<0, 1>>

\* f"{num / den:.1f}" in tenths, rounding the tie to even
Fmt1(num, den) ==
    LET q == (10 * num) \div den
        r == (10 * num) % den
    IN  IF 2 * r > den THEN q + 1
        ELSE IF 2 * r < den THEN q
        ELSE IF q % 2 = 0 THEN q ELSE q + 1

\* ------------------------------------------------------- generate_html_report
HtmlTotalTests == Len(unit_tests) + Len(integration_tests) + Len(platform_tests)
\* HtmlPassedTests counting the performance records too
HtmlPassedTestsWithPerformance ==
    CountEvent(unit_tests \o integration_tests \o performance_tests, "ok")
HtmlPassedTests == CountEvent(unit_tests \o integration_tests, "ok")
HtmlFailedTests == CountEvent(unit_tests \o integration_tests, "failed")

\* status_class of _generate_test_table
StatusClass(status) ==
    CASE status = "ok" -> "passed"
      [] status = "failed" -> "failed"
      [] status = "ignored" -> "skipped"
      [] OTHER -> "skipped"

\* str.upper() of the status strings the inputs use
Upper(status) ==
    CASE status = "ok" -> "OK"
      [] status = "failed" -> "FAILED"
      [] status = "ignored" -> "IGNORED"
      [] status = "started" -> "STARTED"
      [] status = "unknown" -> "UNKNOWN"
      [] OTHER -> status

\* _generate_test_table: the empty-state sentence, or one row per test
HtmlTestTable(tests) ==
    [ message |-> IF tests = <<>> THEN <<"No tests found in this category.">> ELSE <<>>,
      rows |-> [i \in 1..Len(tests) |->
                   [ name |-> Get(tests[i], "name", "Unknown"),
                     status_class |-> StatusClass(Get(tests[i], "event", "unknown")),
                     status |-> Upper(Get(tests[i], "event", "unknown")),
                     duration |-> Get(tests[i], "duration", 0) ]] ]

\* _generate_performance_section
HtmlPerformanceSection ==
    [ message |-> IF performance_tests = <<>>
                  THEN <<"No performance benchmarks were run.">> ELSE <<>>,
      rows |-> [i \in 1..Len(performance_tests) |->
                   [ name |-> Get(performance_tests[i], "name", "Unknown"),
                     mean |-> Get(performance_tests[i], "mean", 0),
                     median |-> Get(performance_tests[i], "median", 0),
                     std_dev |-> Get(performance_tests[i], "std_dev", 0) ]] ]

\* _generate_memory_section
HtmlMemorySection ==
    [ message |-> IF memory_tests = <<>>
                  THEN "No memory leaks or issues detected!"
                  ELSE "Memory issues detected:",
      rows |-> [i \in 1..Len(memory_tests) |->
                   [ kind |-> Get(memory_tests[i], "kind", "Unknown"),
                     what |-> Get(memory_tests[i], "what", "Unknown issue") ]] ]

Platforms == <<"Windows", "macOS", "Linux", "Web (WASM)">>

\* _generate_coverage_section: the three percentages, each f"{...:.1f}"
HtmlCoverageSection(coverage) ==
    [ line |-> Fmt1(Get(coverage, "line_coverage", 0), 1),
      branch |-> Fmt1(Get(coverage, "branch_coverage", 0), 1),
      function |-> Fmt1(Get(coverage, "function_coverage", 0), 1) ]

HtmlContent ==
    LET rate == PassRate(HtmlPassedTests, HtmlTotalTests) IN
    [ total_tests |-> HtmlTotalTests,
      passed_tests |-> HtmlPassedTests,
      failed_tests |-> HtmlFailedTests,
      pass_rate |-> rate,
      pass_rate_shown |-> Fmt1(rate[1], rate[2]),
      line_coverage |-> Fmt1(Get(coverage_data, "line_coverage", 0), 1),
      benchmarks_run |-> Len(performance_tests),
      memory_class |-> IF memory_tests = <<>> THEN "success" ELSE "danger",
      memory_issues |-> Len(memory_tests),
      tabs |-> [ unit |-> Len(unit_tests),
                 integration |-> Len(integration_tests),
                 platform |-> Len(platform_tests) ],
      active_tab |-> "unit-tests",
      active_content |-> "unit-tests",
      unit_table |-> HtmlTestTable(unit_tests),
      integration_table |-> HtmlTestTable(integration_tests),
      platform_table |-> HtmlTestTable(platform_tests),
      performance |-> HtmlPerformanceSection,
      coverage |-> HtmlCoverageSection(coverage_data),
      platforms |-> Platforms,
      memory |-> HtmlMemorySection ]

\* GenerateHtmlReport started while the memory reports are still to be read
GenerateHtmlReportBeforeMemory ==
    /\ pc = "collect_memory"
    /\ attempted' = attempted \cup {"html"}
    /\ \E written \in BOOLEAN :
          IF written
          THEN /\ html_report' = <<HtmlContent>>
               /\ pc' = "generate_json"
               /\ UNCHANGED exit_code
          ELSE /\ UNCHANGED html_report
               /\ Crash
    /\ UNCHANGED <<inputs, document, collections, json_report, md_report>>

\* generate_html_report; open() or write() of the report may fail, and nothing
\* in main() catches it.
GenerateHtmlReport ==
    /\ pc = "generate_html"
    /\ attempted' = attempted \cup {"html"}
    /\ \E written \in BOOLEAN :
          IF written
          THEN /\ html_report' = <<HtmlContent>>
               /\ pc' = "generate_json"
               /\ UNCHANGED exit_code
          ELSE /\ UNCHANGED html_report
               /\ Crash
    /\ UNCHANGED <<inputs, document, collections, json_report, md_report>>

\* ------------------------------------------------------- generate_json_report
\* JsonTotalTests counting the performance records too
JsonTotalTestsWithPerformance ==
    Len(unit_tests) + Len(integration_tests) + Len(performance_tests)
\* JsonFailedTests counting every record that did not pass
JsonFailedTestsNotOk ==
    Len(unit_tests \o integration_tests) - CountEvent(unit_tests \o integration_tests, "ok")
JsonTotalTests == Len(unit_tests) + Len(integration_tests)
JsonPassedTests == CountEvent(unit_tests \o integration_tests, "ok")
JsonFailedTests == CountEvent(unit_tests \o integration_tests, "failed")

JsonContent ==
    [ summary |-> [ total_tests |-> JsonTotalTests,
                    passed |-> JsonPassedTests,
                    failed |-> JsonFailedTests,
                    coverage |-> coverage_data ],
      tests |-> [ unit |-> unit_tests,
                  integration |-> integration_tests,
                  performance |-> performance_tests,
                  platform |-> platform_tests ],
      memory |-> memory_tests ]

GenerateJsonReport ==
    /\ pc = "generate_json"
    /\ attempted' = attempted \cup {"json"}
    /\ \E written \in BOOLEAN :
          IF written
          THEN /\ json_report' = <<JsonContent>>
               /\ pc' = "generate_markdown"
               /\ UNCHANGED exit_code
          ELSE /\ UNCHANGED json_report
               /\ Crash
    /\ UNCHANGED <<inputs, document, collections, html_report, md_report>>

\* --------------------------------------------------- generate_markdown_report
\* MdTotalTests counting the performance records too
MdTotalTestsWithPerformance ==
    Len(unit_tests) + Len(integration_tests) + Len(performance_tests)
MdTotalTests == Len(unit_tests) + Len(integration_tests)
MdPassedTests == CountEvent(unit_tests \o integration_tests, "ok")
MdFailedTests == CountEvent(unit_tests \o integration_tests, "failed")

\* tests[:n]
FirstN(tests, n) == SubSeq(tests, 1, IF Len(tests) < n THEN Len(tests) ELSE n)

\* The table rows of the first MdRowLimit tests
MdTestRows(tests) ==
    LET shown == FirstN(tests, MdRowLimit) IN
    [i \in 1..Len(shown) |->
        [ name |-> Get(shown[i], "name", "Unknown"),
          status |-> Upper(Get(shown[i], "event", "unknown")),
          duration |-> Get(shown[i], "duration", 0) ]]

\* The "*... and K more tests*" line under the unit table, <<K>>, or <<>> when
\* the table is complete
MdUnitMore ==
    IF Len(unit_tests) > MdRowLimit THEN <<Len(unit_tests) - MdRowLimit>> ELSE <<>>

\* No such line follows the integration table
MdIntegrationMore == <<>>

\* No such line follows the benchmark table
MdBenchmarkMore == <<>>

\* The sentence written in place of the rows of an empty table: none; an
\* empty collection leaves the table header without rows
MdUnitEmptyMessage == <<>>
MdIntegrationEmptyMessage == <<>>
MdBenchmarkEmptyMessage == <<>>

MdBenchmarkRows ==
    LET shown == FirstN(performance_tests, MdRowLimit) IN
    [i \in 1..Len(shown) |->
        [ name |-> Get(shown[i], "name", "Unknown"),
          mean |-> Get(shown[i], "mean", 0),
          median |-> Get(shown[i], "median", 0),
          std_dev |-> Get(shown[i], "std_dev", 0) ]]

\* MdMemorySection listing the first issue only
MdMemorySectionFirstOnly ==
    [ message |-> IF memory_tests = <<>>
                  THEN "No memory leaks or issues detected!"
                  ELSE "Memory issues detected:",
      lines |-> [i \in 1..(IF memory_tests = <<>> THEN 0 ELSE 1) |->
                    [ kind |-> Get(memory_tests[i], "kind", "Unknown"),
                      what |-> Get(memory_tests[i], "what", "Unknown issue") ]] ]
MdMemorySection ==
    [ message |-> IF memory_tests = <<>>
                  THEN "No memory leaks or issues detected!"
                  ELSE "Memory issues detected:",
      lines |-> [i \in 1..Len(memory_tests) |->
                    [ kind |-> Get(memory_tests[i], "kind", "Unknown"),
                      what |-> Get(memory_tests[i], "what", "Unknown issue") ]] ]

MdContent ==
    LET rate == PassRate(MdPassedTests, MdTotalTests) IN
    [ total_tests |-> MdTotalTests,
      passed_tests |-> MdPassedTests,
      pass_rate |-> rate,
      pass_rate_shown |-> Fmt1(rate[1], rate[2]),
      failed_tests |-> MdFailedTests,
      line_coverage |-> Fmt1(Get(coverage_data, "line_coverage", 0), 1),
      benchmarks |-> Len(performance_tests),
      memory_issues |-> Len(memory_tests),
      unit_count |-> Len(unit_tests),
      unit_rows |-> MdTestRows(unit_tests),
      unit_more |-> MdUnitMore,
      integration_count |-> Len(integration_tests),
      integration_rows |-> MdTestRows(integration_tests),
      integration_more |-> MdIntegrationMore,
      benchmark_rows |-> MdBenchmarkRows,
      benchmark_more |-> MdBenchmarkMore,
      unit_message |-> MdUnitEmptyMessage,
      integration_message |-> MdIntegrationEmptyMessage,
      benchmark_message |-> MdBenchmarkEmptyMessage,
      platforms |-> Platforms,
      memory |-> MdMemorySection ]

GenerateMarkdownReport ==
    /\ pc = "generate_markdown"
    /\ attempted' = attempted \cup {"md"}
    /\ \E written \in BOOLEAN :
          IF written
          THEN /\ md_report' = <<MdContent>>
               /\ pc' = "open_browser"
               /\ UNCHANGED exit_code
          ELSE /\ UNCHANGED md_report
               /\ Crash
    /\ UNCHANGED <<inputs, document, collections, html_report, json_report>>

\* -------------------------------------------------- the report in the browser
\* The .tab buttons of _generate_test_results_section, named by their labels,
\* the data-tab of each, and the ids of the .tab-content panels
Tabs == {"Unit Tests", "Integration Tests", "Platform Tests"}
DataTab ==
    [ tab \in Tabs |->
        CASE tab = "Unit Tests" -> "unit-tests"
          [] tab = "Integration Tests" -> "integration-tests"
          [] tab = "Platform Tests" -> "platform-tests" ]
TabContents == {"unit-tests", "integration-tests", "platform-tests"}

\* The page a browser builds from the written HTML report: the elements that
\* carry the class "active", and the rendered tables and counts. last_click
\* records the tab of the latest click, <<>> before any.
LoadDocument(html) ==
    [ tab_active |-> {tab \in Tabs : DataTab[tab] = html.active_tab},
      content_active |-> {html.active_content},
      last_click |-> <<>>,
      counts |-> html.tabs,
      tables |-> [ unit |-> html.unit_table,
                   integration |-> html.integration_table,
                   platform |-> html.platform_table ] ]

\* ----------------------------------------------------------------------- main
\* The summary prints and webbrowser.open, whose failure is swallowed; main()
\* returns and the interpreter exits with status 0.
OpenBrowser ==
    /\ pc = "open_browser"
    /\ pc' = "done"
    /\ exit_code' = 0
    /\ \E opened \in BOOLEAN :
          document' = IF opened THEN <<LoadDocument(html_report[1])>> ELSE <<>>
    /\ UNCHANGED <<inputs, collections, attempted, reports>>

\* The click handler of the report's script: the class "active" is removed
\* from every .tab and every .tab-content, then added to the clicked tab and
\* to the element whose id is the tab's data-tab.
ClickTabNoClear(tab) ==
    /\ document # <<>>
    /\ LET tabId == DataTab[tab] IN
       document' = <<[document[1] EXCEPT
                        !.tab_active = @ \cup {tab},
                        !.content_active = @ \cup {tabId},
                        !.last_click = <<tab>>]>>
    /\ UNCHANGED <<inputs, collections, attempted, reports, pc, exit_code>>

ClickTab(tab) ==
    /\ document # <<>>
    /\ LET tabId == DataTab[tab] IN
       document' = <<[document[1] EXCEPT
                        !.tab_active = (@ \ Tabs) \cup {tab},
                        !.content_active = (@ \ TabContents) \cup {tabId},
                        !.last_click = <<tab>>]>>
    /\ UNCHANGED <<inputs, collections, attempted, reports, pc, exit_code>>

Next ==
    \/ CollectCargoTestResults
    \/ CollectBenchmarkResults
    \/ CollectCoverageResults
    \/ CollectMemoryTestResults
    \/ GenerateHtmlReport
    \/ GenerateJsonReport
    \/ GenerateMarkdownReport
    \/ OpenBrowser
    \/ \E tab \in Tabs : ClickTab(tab)

Spec == Init /\ [][Next]_vars

\* ------------------------------------------------------- collect_test_results
\* A second call of collect_test_results() on the same generator, the files
\* unchanged: the four collectors run again, each on the lists the first call
\* left. The first call returned, so no collector raises this time either.
CollectTestResultsAgain ==
    /\ pc = "generate_html"
    /\ LET cols == ReadEventFiles(event_files, 1,
                       [ unit |-> unit_tests,
                         integration |-> integration_tests,
                         performance |-> performance_tests ])
           got == IF criterion.exists
                  THEN ReadBenchDirs(criterion.entries, 1, cols.performance)
                  ELSE [performance |-> cols.performance, raised |-> FALSE]
       IN  /\ unit_tests' = cols.unit
           /\ integration_tests' = cols.integration
           /\ performance_tests' = got.performance
    /\ coverage_data' = ReadCoverage(tarpaulin)
    /\ memory_tests' = ReadValgrindFiles(valgrind_files, 1, memory_tests)
    /\ pc' = "collected_twice"
    /\ UNCHANGED <<inputs, document, accessibility_tests, platform_tests, attempted,
                   reports, exit_code>>

\* main(), or a caller that collects twice before it renders
NextTwice ==
    \/ Next
    \/ CollectTestResultsAgain

SpecTwice == Init /\ [][NextTwice]_vars

\* ------------------------------------------------------------------ properties
Terminated == pc \in {"done", "crashed"}

\* collect_test_results has returned or raised
CollectionOver ==
    pc \notin {"collect_cargo", "collect_benchmarks", "collect_coverage", "collect_memory"}

\* The records of a list that come from test events (benchmark records have no status)
EventRecords(tests) == {i \in 1..Len(tests) : "event" \in DOMAIN tests[i]}

\* The records of a list that come from benchmark directories
BenchmarkRecords(tests) == {i \in 1..Len(tests) : "mean" \in DOMAIN tests[i]}

\* The lines of all readable event files, in order
RECURSIVE AllLines(_)
AllLines(files) ==
    IF files = <<>> THEN <<>>
    ELSE (IF Head(files).readable THEN Head(files).lines ELSE <<>>) \o AllLines(Tail(files))

IsTestEvent(line) == line.json = "object" /\ Get(line.obj, "type", None) = "test"

TestEventCount(files) ==
    Cardinality({i \in 1..Len(AllLines(files)) : IsTestEvent(AllLines(files)[i])})

\* The <error> elements of all parsable valgrind reports
RECURSIVE ErrorCount(_)
ErrorCount(files) ==
    IF files = <<>> THEN 0
    ELSE (IF Head(files).parsable THEN Len(Head(files).errors) ELSE 0) + ErrorCount(Tail(files))

\* C1: the HTML, JSON and Markdown reports written by one run show the same
\* total, the same passed count, the same failed count and the same coverage
\* percentages.
C1_ReportsAgree ==
    /\ (html_report # <<>> /\ json_report # <<>>) =>
          LET h == html_report[1]
              j == json_report[1].summary
          IN  /\ h.total_tests = j.total_tests
              /\ h.passed_tests = j.passed
              /\ h.failed_tests = j.failed
              /\ h.line_coverage = 10 * j.coverage.line_coverage
              /\ h.coverage.line = 10 * j.coverage.line_coverage
              /\ h.coverage.branch = 10 * j.coverage.branch_coverage
              /\ h.coverage.function = 10 * j.coverage.function_coverage
    /\ (json_report # <<>> /\ md_report # <<>>) =>
          LET m == md_report[1]
              j == json_report[1].summary
          IN  /\ m.total_tests = j.total_tests
              /\ m.passed_tests = j.passed
              /\ m.failed_tests = j.failed
              /\ m.line_coverage = 10 * j.coverage.line_coverage
    /\ (html_report # <<>> /\ md_report # <<>>) =>
          LET h == html_report[1]
              m == md_report[1]
          IN  /\ h.total_tests = m.total_tests
              /\ h.passed_tests = m.passed_tests
              /\ h.failed_tests = m.failed_tests
              /\ h.line_coverage = m.line_coverage
              /\ h.pass_rate_shown = m.pass_rate_shown

\* All three reports are written, of a run with one passed and one failed test.
C1_Witness ==
    /\ html_report # <<>> /\ json_report # <<>> /\ md_report # <<>>
    /\ md_report[1].total_tests = 2
    /\ md_report[1].passed_tests = 1
    /\ json_report[1].summary.failed = 1
    /\ html_report[1].total_tests = 2

\* C2 (as claimed): when the write of one report fails the later formats are
\* still attempted: after a failed HTML write the JSON and Markdown generators
\* are called, after a failed JSON write the Markdown generator is called.
C2_OtherFormatsStillAttempted ==
    Terminated =>
        /\ ("html" \in attempted /\ html_report = <<>>) => {"json", "md"} \subseteq attempted
        /\ ("json" \in attempted /\ json_report = <<>>) => "md" \in attempted

\* Some artifact of the family is malformed.
MalformedEvents ==
    \E k \in 1..Len(event_files) :
        \/ ~event_files[k].readable
        \/ \E i \in 1..Len(event_files[k].lines) : event_files[k].lines[i].json # "object"
MalformedBenchmarks ==
    \E i \in 1..Len(criterion.entries) : criterion.entries[i].estimates = "malformed"
MalformedCoverage == tarpaulin.exists /\ ~tarpaulin.valid
MalformedMemory == \E k \in 1..Len(valgrind_files) : ~valgrind_files[k].parsable

\* Every well-formed artifact of the family has been collected.
CollectedEvents ==
    Cardinality(EventRecords(unit_tests)) + Cardinality(EventRecords(integration_tests))
      + Cardinality(EventRecords(performance_tests))
    >= TestEventCount(SelectSeq(event_files,
           LAMBDA f : \A i \in 1..Len(f.lines) : f.lines[i].json = "object"))
CollectedBenchmarks ==
    Cardinality(BenchmarkRecords(performance_tests))
    = Cardinality({i \in 1..Len(criterion.entries) :
                      criterion.entries[i].is_dir /\ criterion.entries[i].estimates = "present"})
CollectedCoverage ==
    (tarpaulin.exists /\ tarpaulin.valid) => coverage_data # NoCoverageData
CollectedMemory == Len(memory_tests) = ErrorCount(valgrind_files)

\* C3 (as claimed): once collect_test_results is over, a malformed artifact of
\* one family has not kept the well-formed artifacts of the other three
\* families from being collected.
C3_MalformedFamilyIsolated ==
    CollectionOver =>
        /\ MalformedEvents => (CollectedBenchmarks /\ CollectedCoverage /\ CollectedMemory)
        /\ MalformedBenchmarks => (CollectedEvents /\ CollectedCoverage /\ CollectedMemory)
        /\ MalformedCoverage => (CollectedEvents /\ CollectedBenchmarks /\ CollectedMemory)
        /\ MalformedMemory => (CollectedEvents /\ CollectedBenchmarks /\ CollectedCoverage)

\* C4 (as claimed): after the event files are read the unit, integration and
\* performance lists together hold exactly one record per event of type
\* "test" in the matched files, whatever its status, and none for other events.
C4_OneRecordPerTestEvent ==
    pc # "collect_cargo" =>
        Cardinality(EventRecords(unit_tests)) + Cardinality(EventRecords(integration_tests))
          + Cardinality(EventRecords(performance_tests))
        = TestEventCount(event_files)

\* C5: the total every report shows is the number of unit records plus the
\* number of integration records plus the number of platform records;
\* performance records are not counted.
C5_TotalExcludesPerformance ==
    LET total == Len(unit_tests) + Len(integration_tests) + Len(platform_tests) IN
    /\ html_report # <<>> => html_report[1].total_tests = total
    /\ json_report # <<>> => json_report[1].summary.total_tests = total
    /\ md_report # <<>> => md_report[1].total_tests = total

\* All three reports show a positive total of a run that has performance records.
C5_Witness ==
    /\ md_report # <<>>
    /\ performance_tests # <<>>
    /\ md_report[1].total_tests > 0
    /\ html_report[1].total_tests = md_report[1].total_tests
    /\ md_report[1].benchmarks > 0

\* The reports that show a pass rate, with the total and passed count they show.
PassRateReports ==
    {r[1] : r \in {x \in {html_report, md_report} : x # <<>>}}

\* C6 (as claimed): the pass rate is within [0, 100] and is 0.0 exactly when
\* the total is 0.
C6_PassRateZeroIffNoTests ==
    \A r \in PassRateReports :
        /\ r.pass_rate[2] > 0
        /\ 0 <= r.pass_rate[1] /\ r.pass_rate[1] <= 100 * r.pass_rate[2]
        /\ (r.pass_rate[1] = 0) <=> (r.total_tests = 0)

\* C6 (amended): the pass rate is computed with a positive divisor, is within
\* [0, 100], is 0.0 whenever the total is 0, and is 0.0 exactly when no test
\* passed.
C6_PassRateBounded ==
    \A r \in PassRateReports :
        /\ r.pass_rate[2] > 0
        /\ 0 <= r.pass_rate[1] /\ r.pass_rate[1] <= 100 * r.pass_rate[2]
        /\ 0 <= r.pass_rate_shown /\ r.pass_rate_shown <= 1000
        /\ (r.total_tests = 0) => (r.pass_rate[1] = 0)
        /\ (r.pass_rate[1] = 0) <=> (r.passed_tests = 0)

\* A report shows a pass rate of 0.0 with a total that is not 0.
C6_Witness ==
    /\ md_report # <<>>
    /\ md_report[1].total_tests > 0
    /\ md_report[1].pass_rate[1] = 0
    /\ md_report[1].pass_rate_shown = 0
    /\ html_report[1].pass_rate = md_report[1].pass_rate

\* The counts a report shows: <<total, passed, failed>>.
ShownCounts ==
    {<<r[1].total_tests, r[1].passed_tests, r[1].failed_tests>> :
        r \in {x \in {html_report, md_report} : x # <<>>}}
    \cup {<<r[1].summary.total_tests, r[1].summary.passed, r[1].summary.failed>> :
            r \in {x \in {json_report} : x # <<>>}}

\* The unit and integration records whose status is neither "ok" nor "failed"
NeitherPassedNorFailed ==
    LET all == unit_tests \o integration_tests IN
    {i \in 1..Len(all) : Get(all[i], "event", None) \notin {"ok", "failed"}}

\* C7: in every report passed + failed <= total, and a record whose status is
\* neither "ok" nor "failed" is counted in neither of the two.
C7_PassedPlusFailedWithinTotal ==
    \A c \in ShownCounts :
        /\ c[2] + c[3] <= c[1]
        /\ c[2] + c[3] + Cardinality(NeitherPassedNorFailed)
             = Len(unit_tests) + Len(integration_tests)

\* The reports of a run with an ignored or unrecognized status: passed + failed < total.
C7_Witness ==
    /\ md_report # <<>>
    /\ NeitherPassedNorFailed # {}
    /\ md_report[1].passed_tests + md_report[1].failed_tests > 0
    /\ \A c \in ShownCounts : c[2] + c[3] < c[1]

\* The category the claim's rule gives each name the inputs use.
ExpectedCategory ==
    [ unit_add_clip |-> "unit",
      integration_export |-> "integration",
      Integration_UNIT |-> "unit",
      PERFORMANCE_seek |-> "performance",
      export_clip |-> "unit",
      Unknown |-> "unit" ]

\* The input of the claim's scenario: the two events, in one file or in two.
ScenarioInput ==
    /\ event_files \in { <<EventFile(<<UnitOkLine, IntegrationFailedLine>>)>>,
                         <<EventFile(<<UnitOkLine>>), EventFile(<<IntegrationFailedLine>>)>> }
    /\ criterion = NoCriterion
    /\ valgrind_files = <<>>

\* C8: a test event goes to Unit when its lower-cased name contains "unit",
\* else to Integration when it contains "integration", else to Performance
\* when it contains "performance", else to Unit; and the events unit_add_clip
\* (ok) and integration_export (failed) give one passed unit record, one
\* failed integration record, total 2, passed 1, failed 1, pass rate 50.0.
C8_Categorization ==
    /\ \A i \in EventRecords(unit_tests) : ExpectedCategory[unit_tests[i].name] = "unit"
    /\ \A i \in EventRecords(integration_tests) :
          ExpectedCategory[integration_tests[i].name] = "integration"
    /\ \A i \in EventRecords(performance_tests) :
          ExpectedCategory[performance_tests[i].name] = "performance"
    /\ (ScenarioInput /\ pc # "collect_cargo") =>
          /\ Len(unit_tests) = 1
          /\ unit_tests[1].name = "unit_add_clip" /\ unit_tests[1].event = "ok"
          /\ Len(integration_tests) = 1
          /\ integration_tests[1].name = "integration_export"
          /\ integration_tests[1].event = "failed"
          /\ performance_tests = <<>>
    /\ ScenarioInput =>
          /\ \A c \in ShownCounts : c = <<2, 1, 1>>
          /\ \A r \in PassRateReports : r.pass_rate_shown = 500

\* The scenario has run to its end with all three reports written.
C8_Witness ==
    /\ ScenarioInput
    /\ pc = "done"
    /\ Cardinality(ShownCounts) = 1
    /\ Cardinality(PassRateReports) >= 1

\* C9 (as claimed): a run that has written at least one of the three reports
\* ends with the success status.
C9_SuccessUnlessAllWritesFail ==
    (Terminated /\ (html_report # <<>> \/ json_report # <<>> \/ md_report # <<>>))
        => exit_code = 0

\* The rows of a collection the Markdown report leaves out are announced by a
\* marker that gives their number.
MdMarked(collection, rows, more) ==
    /\ Len(collection) > MdRowLimit => Len(rows) < Len(collection)
    /\ Len(rows) < Len(collection) => more = <<Len(collection) - MdRowLimit>>

\* C10 (as claimed): whenever the Markdown report omits rows of the unit,
\* integration or benchmark collection (any collection of more than 10
\* entries) it gives the number of omitted rows, size - 10; and the JSON
\* report holds every record of every collection.
C10_MarkdownMarksOmittedRows ==
    /\ md_report # <<>> =>
          LET m == md_report[1] IN
          /\ MdMarked(unit_tests, m.unit_rows, m.unit_more)
          /\ MdMarked(integration_tests, m.integration_rows, m.integration_more)
          /\ MdMarked(performance_tests, m.benchmark_rows, m.benchmark_more)
    /\ json_report # <<>> =>
          LET t == json_report[1].tests IN
          /\ t.unit = unit_tests
          /\ t.integration = integration_tests
          /\ t.performance = performance_tests
          /\ t.platform = platform_tests
          /\ json_report[1].memory = memory_tests

\* No artifact file exists anywhere.
NoArtifacts ==
    /\ event_files = <<>>
    /\ ~criterion.exists
    /\ ~tarpaulin.exists
    /\ valgrind_files = <<>>

\* C11 (as claimed): every renderer shows a category without records as a
\* section that is there and states that it is empty; and with no artifact
\* file anywhere all collections are empty, total is 0, the pass rate is 0.0,
\* the memory status is clean and the three reports say so per category.
C11_EmptyCategoriesStated ==
    /\ html_report # <<>> =>
          LET h == html_report[1] IN
          /\ unit_tests = <<>> => h.unit_table.message # <<>>
          /\ integration_tests = <<>> => h.integration_table.message # <<>>
          /\ platform_tests = <<>> => h.platform_table.message # <<>>
          /\ performance_tests = <<>> => h.performance.message # <<>>
    /\ json_report # <<>> =>
          DOMAIN json_report[1].tests = {"unit", "integration", "performance", "platform"}
    /\ md_report # <<>> =>
          LET m == md_report[1] IN
          /\ unit_tests = <<>> => m.unit_message # <<>>
          /\ integration_tests = <<>> => m.integration_message # <<>>
          /\ performance_tests = <<>> => m.benchmark_message # <<>>
    /\ (NoArtifacts /\ CollectionOver) =>
          /\ pc # "crashed" \/ attempted # {}
          /\ unit_tests = <<>> /\ integration_tests = <<>> /\ performance_tests = <<>>
          /\ platform_tests = <<>> /\ memory_tests = <<>>
          /\ coverage_data = DefaultCoverage
          /\ \A c \in ShownCounts : c = <<0, 0, 0>>
          /\ \A r \in PassRateReports : r.pass_rate[1] = 0 /\ r.pass_rate_shown = 0
          /\ html_report # <<>> => html_report[1].memory_class = "success"
          /\ md_report # <<>> => md_report[1].memory.message = "No memory leaks or issues detected!"

\* What each written report shows of the coverage
CoverageShown ==
    [ html |-> IF html_report = <<>> THEN <<>>
               ELSE <<html_report[1].line_coverage, html_report[1].coverage>>,
      json |-> IF json_report = <<>> THEN <<>> ELSE <<json_report[1].summary.coverage>>,
      md |-> IF md_report = <<>> THEN <<>> ELSE <<md_report[1].line_coverage>> ]

\* What the reports show of the coverage when the summary file is the given one
CoverageShownFor(file) ==
    LET coverage == ReadCoverage(file) IN
    [ html |-> <<Fmt1(Get(coverage, "line_coverage", 0), 1), HtmlCoverageSection(coverage)>>,
      json |-> <<coverage>>,
      md |-> <<Fmt1(Get(coverage, "line_coverage", 0), 1)>> ]

\* C12: a report written when no coverage summary exists shows the coverage
\* differently from the report of a run whose summary measures 0.0, so a
\* reader can tell the default from a measured zero.
C12_MissingCoverageDistinguished ==
    tarpaulin = NoTarpaulin =>
        /\ html_report # <<>> => CoverageShown.html # CoverageShownFor(Tarpaulin(0)).html
        /\ json_report # <<>> => CoverageShown.json # CoverageShownFor(Tarpaulin(0)).json
        /\ md_report # <<>> => CoverageShown.md # CoverageShownFor(Tarpaulin(0)).md

\* _collect_coverage_results has returned
CoverageCollected ==
    \/ pc \in {"collect_memory", "generate_html", "generate_json",
               "generate_markdown", "open_browser", "done"}
    \/ pc = "crashed" /\ attempted # {}

CoverageKeys == {"line_coverage", "branch_coverage", "function_coverage"}

\* C13: once the coverage collector has run with no summary file present, the
\* line, branch and function percentages are all 0.0; and whenever the
\* percentages exist, each lies within [0, 100].
C13_CoverageDefaultsAndRange ==
    /\ (tarpaulin = NoTarpaulin /\ CoverageCollected) =>
           /\ DOMAIN coverage_data = CoverageKeys
           /\ \A k \in CoverageKeys : coverage_data[k] = 0
    /\ coverage_data # NoCoverageData =>
           /\ DOMAIN coverage_data = CoverageKeys
           /\ \A k \in CoverageKeys : coverage_data[k] \in 0..100

C13_Witness ==
    /\ tarpaulin = NoTarpaulin
    /\ pc = "collect_memory"
    /\ coverage_data = DefaultCoverage

\* _collect_memory_test_results has returned
MemoryCollected ==
    \/ pc \in {"generate_html", "generate_json", "generate_markdown", "open_browser", "done"}
    \/ pc = "crashed" /\ attempted # {}

\* The <error> elements of the parsable memory reports, in file order
RECURSIVE ParsableErrors(_)
ParsableErrors(files) ==
    IF files = <<>> THEN <<>>
    ELSE (IF Head(files).parsable THEN Head(files).errors ELSE <<>>)
            \o ParsableErrors(Tail(files))

\* C14: after the memory reports are read there is exactly one memory issue
\* per <error> element of the parsable reports, in order; a missing <kind>
\* gives kind "Unknown", a missing <what> gives description "Unknown issue";
\* no report, or reports without <error>, give no issue and no failure.
C14_OneIssuePerError ==
    MemoryCollected =>
        LET errors == ParsableErrors(valgrind_files) IN
        /\ Len(memory_tests) = Len(errors)
        /\ \A i \in 1..Len(errors) :
              /\ memory_tests[i].kind = Get(errors[i], "kind", "Unknown")
              /\ memory_tests[i].what = Get(errors[i], "what", "Unknown issue")

\* _collect_benchmark_results has returned or raised
BenchmarkScanOver == pc \notin {"collect_cargo", "collect_benchmarks"}

\* The point estimate an estimates file gives for a statistic, 0 when it gives none
PointEstimate(data, stat) ==
    IF stat \in DOMAIN data /\ "point_estimate" \in DOMAIN data[stat]
    THEN data[stat].point_estimate ELSE 0

\* One record per directory with a readable estimates file, from entry i on
RECURSIVE ExpectedBenchmarks(_, _)
ExpectedBenchmarks(entries, i) ==
    IF i > Len(entries) THEN <<>>
    ELSE (IF entries[i].is_dir /\ entries[i].estimates = "present"
          THEN << [ name |-> BenchName(i),
                    mean |-> PointEstimate(entries[i].data, "mean"),
                    median |-> PointEstimate(entries[i].data, "median"),
                    std_dev |-> PointEstimate(entries[i].data, "std_dev") ] >>
          ELSE <<>>)
         \o ExpectedBenchmarks(entries, i + 1)

\* C15: after the benchmark scan the benchmark records are exactly one per
\* subdirectory holding a readable base/estimates.json, none for the other
\* entries, each with the file's point estimates for mean, median and
\* standard deviation, 0 for one the file does not give.
C15_OneRecordPerEstimateFile ==
    BenchmarkScanOver =>
        SelectSeq(performance_tests, LAMBDA r : "mean" \in DOMAIN r)
            = ExpectedBenchmarks(criterion.entries, 1)

\* The same for the scans that returned without raising
C15_WhenScanReturns ==
    (BenchmarkScanOver /\ ~MalformedBenchmarks) =>
        SelectSeq(performance_tests, LAMBDA r : "mean" \in DOMAIN r)
            = ExpectedBenchmarks(criterion.entries, 1)

\* C16: a second run of the collection step over unchanged files leaves the
\* unit, integration, performance and memory collections (and the coverage)
\* as the first run left them.
C16_CollectionIdempotent ==
    [][CollectTestResultsAgain => UNCHANGED collections]_vars

\* C17: a written report shows the memory status as clean exactly when no
\* memory issue was collected; otherwise it shows issues as present, and the
\* count and the listed issues number exactly the collected ones.
C17_MemoryStatusMatchesIssues ==
    /\ html_report # <<>> =>
          LET h == html_report[1] IN
          /\ h.memory_class = "success" <=> memory_tests = <<>>
          /\ h.memory_class = "danger" <=> memory_tests # <<>>
          /\ h.memory.message = "No memory leaks or issues detected!" <=> memory_tests = <<>>
          /\ h.memory.message = "Memory issues detected:" <=> memory_tests # <<>>
          /\ h.memory_issues = Len(memory_tests)
          /\ Len(h.memory.rows) = Len(memory_tests)
    /\ md_report # <<>> =>
          LET m == md_report[1] IN
          /\ m.memory.message = "No memory leaks or issues detected!" <=> memory_tests = <<>>
          /\ m.memory.message = "Memory issues detected:" <=> memory_tests # <<>>
          /\ m.memory_issues = Len(memory_tests)
          /\ Len(m.memory.lines) = Len(memory_tests)
    /\ json_report # <<>> => Len(json_report[1].memory) = Len(memory_tests)

C17_Witness ==
    /\ md_report # <<>>
    /\ html_report # <<>>
    /\ Len(memory_tests) = MaxMemErrors
    /\ md_report[1].memory_issues = MaxMemErrors
    /\ html_report[1].memory_class = "danger"

\* The event files with every line that is no JSON object taken out
WithoutBadLines(files) ==
    [k \in 1..Len(files) |->
        IF files[k].readable
        THEN EventFile(SelectSeq(files[k].lines, LAMBDA l : l.json = "object"))
        ELSE files[k]]

\* C18: a line of an event file that cannot be parsed or processed costs that
\* line only: once the event files are read, the collections hold what
\* reading the same files without their bad lines gives, so every later line
\* of the file and every later file has been processed.
C18_BadLineLosesOnlyItself ==
    pc # "collect_cargo" =>
        LET none == [unit |-> <<>>, integration |-> <<>>, performance |-> <<>>]
            cols == ReadEventFiles(WithoutBadLines(event_files), 1, none)
        IN  /\ unit_tests = cols.unit
            /\ integration_tests = cols.integration
            /\ SelectSeq(performance_tests, LAMBDA r : "event" \in DOMAIN r) = cols.performance

\* All four parsers have returned: the collections hold what reading the event
\* files, the benchmark directories, the coverage summary and the memory
\* reports gives
ParsersCompleted ==
    LET none == [unit |-> <<>>, integration |-> <<>>, performance |-> <<>>]
        cols == ReadEventFiles(event_files, 1, none)
    IN  /\ ~MalformedBenchmarks
        /\ ~MalformedCoverage
        /\ unit_tests = cols.unit
        /\ integration_tests = cols.integration
        /\ performance_tests = cols.performance \o ExpectedBenchmarks(criterion.entries, 1)
        /\ coverage_data = ReadCoverage(tarpaulin)
        /\ memory_tests = ReadValgrindFiles(valgrind_files, 1, <<>>)

\* C19: no renderer starts (and so no summary number is computed and no
\* report written) before the four parsers have completed, and from the start
\* of the first renderer on no step changes a collection.
C19_RenderAfterParsersOnFrozenData ==
    /\ [](attempted # {} => ParsersCompleted)
    /\ [][attempted' # {} => UNCHANGED collections]_vars

C19_Witness ==
    /\ pc = "done"
    /\ attempted = {"html", "json", "md"}
    /\ unit_tests # <<>>
    /\ performance_tests # <<>>
    /\ memory_tests # <<>>
    /\ tarpaulin = Tarpaulin(875)

\* C20: the page opens with the Unit tab and its panel active; after any
\* clicks exactly one tab and exactly one panel are active, the tab clicked
\* last and the panel of that tab; and a click changes only which tab and
\* panel are active: the rendered tables and counts, the written reports and
\* the collections stay as they were.
C20_OneActiveTabAndPanel ==
    /\ [](document # <<>> =>
            LET d == document[1]
                shown == IF d.last_click = <<>> THEN "Unit Tests" ELSE d.last_click[1]
            IN  /\ d.tab_active = {shown}
                /\ d.content_active = {DataTab[shown]}
                /\ Cardinality(d.tab_active) = 1
                /\ Cardinality(d.content_active) = 1)
    /\ [][document # <<>> =>
            /\ document' # <<>>
            /\ document'[1].counts = document[1].counts
            /\ document'[1].tables = document[1].tables
            /\ UNCHANGED <<inputs, collections, reports, attempted, pc, exit_code>>]_vars

C20_Witness ==
    /\ document # <<>>
    /\ document[1].last_click = <<"Platform Tests">>
    /\ document[1].content_active = {"platform-tests"}
    /\ unit_tests # <<>>
====
